---- MODULE Spec2Model ----
(***************************************************************************)
(* The NodeNumber scheduler plugin (simulator/pkg/nodenumber/plugin.go):   *)
(* one scheduling cycle is PreScore for the pod, one Score invocation per  *)
(* candidate node (run concurrently by the host), then PostBind for the    *)
(* node the host bound the pod to.                                         *)
(*                                                                         *)
(* float64 values are held as integers counting halves (240 is 120.0,      *)
(* 161 is 80.5); pod names are sequences of bytes.                         *)
(***************************************************************************)
EXTENDS Integers, Sequences, FiniteSets, TLC

\* ---------------------------------------------------------------- bounds
\* longest pod name, in bytes
MaxNameLen == 2

\* ------------------------------------------------------------- constants
Name == "NodeNumber"
preScoreStateKey == "PreScoreNodeNumber"
\* the score Score returns when GetData fails
ApiFailScore == 22
\* the battery offset of the blend
BatteryOffset == 20
\* math.MinInt64, held at the width of the model's integers
MinInt64 == -2147483647

\* ------------------------------------------------------------ the inputs
Fl(x) == 2 * x

LocationData(loc, ro, pl, bc) ==
    [Time |-> "t0", BatteryCharge |-> bc, RenewableOutput |-> ro,
     PrimaryLoad |-> pl, UnmetLoad |-> 0, Location |-> loc]

\* the zero value of LocationData: what a frame holds before the match
ZeroLocationData == LocationData("", 0, 0, 0)

RecSpec     == LocationData("dk", Fl(120), Fl(100), Fl(80))
RecLow      == LocationData("dk", Fl(0), Fl(100), Fl(0))
RecHigh     == LocationData("dk", Fl(120), Fl(100), Fl(250))
RecNaN      == LocationData("dk", Fl(0), Fl(0), Fl(80))
RecPosInf   == LocationData("dk", Fl(120), Fl(0), Fl(80))
RecNegInf   == LocationData("dk", Fl(0 - 50), Fl(0), Fl(80))
RecHalf     == LocationData("dk", Fl(120), Fl(100), 161)
RecNegLoad  == LocationData("dk", Fl(0), Fl(0 - 100), Fl(50))
RecNegBatt  == LocationData("dk", Fl(100), Fl(100), 0 - 41)
RecNoLoc    == LocationData("", Fl(50), Fl(100), Fl(20))
RecOther    == LocationData("se", Fl(90), Fl(100), Fl(60))

Records == {RecSpec, RecLow, RecHigh, RecNaN, RecPosInf, RecNegInf, RecHalf,
            RecNegLoad, RecNegBatt, RecNoLoc, RecOther}

\* the JSON arrays the telemetry service answers with
Payloads == {<<>>} \cup {<<r>> : r \in Records}
              \cup {<<RecOther, RecSpec>>, <<RecSpec, RecLow>>}

\* what one http.Get of the telemetry endpoint can do
FetchOutcomes ==
    {[kind |-> k, recs |-> <<>>] :
        k \in {"transport_err", "read_err", "syntax_err", "not_array", "hang"}}
    \cup {[kind |-> "array", recs |-> p] : p \in Payloads}

NoFetch == [kind |-> "none", recs |-> <<>>]

\* the node snapshot of the host: one node labelled with a location, one
\* without the label
NodeList == << [Name |-> "node-a", Labels |-> [location |-> "dk"]],
               [Name |-> "node-b", Labels |-> [zone |-> "z1"]] >>

Nodes == {NodeList[k].Name : k \in 1..Len(NodeList)}

\* pod names: a run of 'p' followed by one of these last bytes
\* '/', '0', '9', ':', '-', and the continuation byte of a two-byte rune
LastBytes == {47, 48, 57, 58, 45, 169}

RECURSIVE Repeat(_, _)
Repeat(b, n) == IF n = 0 THEN <<>> ELSE <<b>> \o Repeat(b, n - 1)

PodNames == {<<>>} \cup
            {Repeat(112, n) \o <<b>> : n \in 0..(MaxNameLen - 1), b \in LastBytes}

Archs == {"amd64", "arm64"}

Args == {"nil", "reverse_true", "reverse_false", "undecodable"}

VARIABLES pl, arch, phase, pod, cycleState, preScoreStatus, panic,
          pc, resp, apiData, apierr, location, locData, result,
          pbpc, boundNode, requests, logged

vars == <<pl, arch, phase, pod, cycleState, preScoreStatus, panic,
          pc, resp, apiData, apierr, location, locData, result,
          pbpc, boundNode, requests, logged>>

scoreVars == <<pc, resp, apiData, apierr, location, locData, result>>
postBindVars == <<pbpc, boundNode, requests, logged>>

\* ------------------------------------------------------ library functions
\* slices.IndexFunc: the 0-based index of the first element satisfying the
\* test, -1 when there is none; hit[k] is the test's answer for element k
IndexFunc(hit) ==
    IF \E k \in DOMAIN hit : hit[k]
    THEN (CHOOSE k \in DOMAIN hit :
              hit[k] /\ \A j \in 1..(k - 1) : ~hit[j]) - 1
    ELSE 0 - 1

\* s[idx] of a slice: a run-time panic when idx is out of range
SliceIndex(s, idx, zero) ==
    IF idx < 0 \/ idx >= Len(s)
    THEN [panic |-> TRUE, val |-> zero]
    ELSE [panic |-> FALSE, val |-> s[idx + 1]]

\* s[lo:] of a string: a run-time panic when lo is out of range
SliceFrom(s, lo) ==
    IF lo < 0 \/ lo > Len(s)
    THEN [panic |-> TRUE, val |-> <<>>]
    ELSE [panic |-> FALSE, val |-> SubSeq(s, lo + 1, Len(s))]

IsDigit(b) == b \in 48..57

RECURSIVE DigitsValue(_)
DigitsValue(s) ==
    IF Len(s) = 0 THEN 0
    ELSE 10 * DigitsValue(SubSeq(s, 1, Len(s) - 1)) + (s[Len(s)] - 48)

\* strconv.Atoi: an optional sign followed by one or more decimal digits
Atoi(s) ==
    LET signed == Len(s) > 0 /\ s[1] \in {43, 45}
        digits == IF signed THEN SubSeq(s, 2, Len(s)) ELSE s
    IN  IF Len(digits) > 0 /\ \A k \in 1..Len(digits) : IsDigit(digits[k])
        THEN [val |-> IF signed /\ s[1] = 45 THEN 0 - DigitsValue(digits)
                      ELSE DigitsValue(digits),
              err |-> FALSE]
        ELSE [val |-> 0, err |-> TRUE]

\* state.Write(key, s) of the per-cycle state
StateWrite(state, key, s) ==
    [k \in (DOMAIN state) \cup {key} |-> IF k = key THEN s ELSE state[k]]

EmptyCycleState == [k \in {} |-> [podSuffixNumber |-> 0]]

\* labels[key] of a Go map: the empty string for a missing key
MapGet(labels, key) == IF key \in DOMAIN labels THEN labels[key] ELSE ""

\* math.Round of a float held in halves: to the nearest integer, halves
\* away from zero
MathRound(h) ==
    IF h >= 0 THEN (h + 1) \div 2 ELSE 0 - ((1 - h) \div 2)

\* a / b of float64: a division by zero gives an infinity or NaN
FloatDiv(a, b) ==
    IF b # 0 THEN [kind |-> "finite", num |-> a, den |-> b]
    ELSE IF a > 0 THEN [kind |-> "posinf", num |-> 0, den |-> 1]
    ELSE IF a < 0 THEN [kind |-> "neginf", num |-> 0, den |-> 1]
    ELSE [kind |-> "nan", num |-> 0, den |-> 1]

\* RoundThreshold[k] is the least renewDiff, in millionths, at which
\* 100 / (1 + e^(-5 * renewDiff)) reaches k - 0.5
RoundThreshold ==
    << -1058660, -836918, -732712, -663356, -611009, -568770, -533231,
       -502461, -475254, -450811, -428572, -408131, -389182, -371490,
       -354873, -339182, -324297, -310119, -296566, -283568, -271066,
       -259009, -247352, -236058, -225091, -214424, -204028, -193880,
       -183958, -174244, -164720, -155369, -146177, -137131, -128218,
       -119426, -110745, -102165, -93675, -85268, -76934, -68666, -60456,
       -52295, -44178, -36097, -28045, -20016, -12003, -4000, 4001, 12004,
       20017, 28046, 36098, 44179, 52296, 60457, 68667, 76935, 85269, 93676,
       102166, 110746, 119427, 128219, 137132, 146178, 155370, 164721,
       174245, 183959, 193881, 204029, 214425, 225092, 236059, 247353,
       259010, 271067, 283569, 296567, 310120, 324298, 339183, 354874,
       371491, 389183, 408132, 428573, 450812, 475255, 502462, 533232,
       568771, 611010, 663357, 732713, 836919, 1058661 >>

\* 100 / (1 + e^(-5 * renewDiff)) >= k - 0.5, for a finite renewDiff
ReachesHalf(renewDiff, k) ==
    IF renewDiff.den > 0
    THEN renewDiff.num * 1000000 >= RoundThreshold[k] * renewDiff.den
    ELSE renewDiff.num * 1000000 <= RoundThreshold[k] * renewDiff.den

\* the greatest k of lo..hi with ReachesHalf, lo when there is none above it
\* (the thresholds increase with k)
RECURSIVE NearestInteger(_, _, _)
NearestInteger(renewDiff, lo, hi) ==
    IF lo >= hi THEN lo
    ELSE LET mid == (lo + hi + 1) \div 2
         IN  IF ReachesHalf(renewDiff, mid)
             THEN NearestInteger(renewDiff, mid, hi)
             ELSE NearestInteger(renewDiff, lo, mid - 1)

\* math.Round(100 / (1.0 + math.Pow(math.E, -0.05*100*renewDiff)))
RoundRenewScore(renewDiff) ==
    CASE renewDiff.kind = "nan"    -> [nan |-> TRUE, val |-> 0]
      [] renewDiff.kind = "posinf" -> [nan |-> FALSE, val |-> 100]
      [] renewDiff.kind = "neginf" -> [nan |-> FALSE, val |-> 0]
      [] OTHER -> [nan |-> FALSE, val |-> NearestInteger(renewDiff, 0, 100)]

\* int64(NaN): the result depends on the implementation
Int64OfNaN(a) == IF a = "amd64" THEN MinInt64 ELSE 0

\* int64(s / 2) of a finite float: truncation toward zero
Int64OfHalf(s) == IF s >= 0 THEN s \div 2 ELSE 0 - ((0 - s) \div 2)

\* GetData that takes any well-formed JSON document for a record list
GetDataAnyJSON(o) ==
    IF o.kind \in {"array", "not_array"}
    THEN [data |-> o.recs, err |-> "nil"]
    ELSE [data |-> <<>>, err |-> o.kind]

\* --------------------------------------------------------------- GetData
GetData(o) ==
    IF o.kind = "array"
    THEN [data |-> o.recs, err |-> "nil"]
    ELSE [data |-> <<>>, err |-> o.kind]

GetLocationData(loc, data) ==
    LET idx == IndexFunc([k \in 1..Len(data) |-> data[k].Location = loc])
    IN  SliceIndex(data, idx, ZeroLocationData)

\* the blend with the preference reversed when the reverse option is set
ScoreBlendReverse(plugin, state, p, ld, a) ==
    LET renewDiff  == FloatDiv(ld.RenewableOutput - ld.PrimaryLoad, ld.PrimaryLoad)
        renewScore == RoundRenewScore(renewDiff)
        score      == IF renewScore.nan
                      THEN Int64OfNaN(a)
                      ELSE Int64OfHalf(renewScore.val + (MathRound(ld.BatteryCharge) - BatteryOffset))
    IN  IF plugin.reverse THEN 100 - score ELSE score

\* the blend without the battery offset
ScoreBlendNoOffset(plugin, state, p, ld, a) ==
    LET renewDiff  == FloatDiv(ld.RenewableOutput - ld.PrimaryLoad, ld.PrimaryLoad)
        renewScore == RoundRenewScore(renewDiff)
    IN  IF renewScore.nan
        THEN Int64OfNaN(a)
        ELSE Int64OfHalf(renewScore.val + MathRound(ld.BatteryCharge))

\* lines 132-136 of Score: the blend of the matched record
ScoreBlend(plugin, state, p, ld, a) ==
    LET renewDiff  == FloatDiv(ld.RenewableOutput - ld.PrimaryLoad, ld.PrimaryLoad)
        renewScore == RoundRenewScore(renewDiff)
    IN  IF renewScore.nan
        THEN Int64OfNaN(a)
        ELSE Int64OfHalf(renewScore.val + (MathRound(ld.BatteryCharge) - BatteryOffset))

\* New: a nil argument leaves Reverse false, a decoded one sets it, an
\* undecodable one is an error and no plugin
New(arg) ==
    CASE arg = "nil"           -> [ok |-> TRUE, reverse |-> FALSE]
      [] arg = "reverse_false" -> [ok |-> TRUE, reverse |-> FALSE]
      [] arg = "reverse_true"  -> [ok |-> TRUE, reverse |-> TRUE]
      [] OTHER                 -> [ok |-> FALSE, reverse |-> FALSE]

\* ------------------------------------------------------------------ state
NoLocation == "<unread>"
NoResult == [score |-> 0, status |-> "none"]

\* the frame of a Score invocation that has not started
NewFrame(v) == [n \in Nodes |-> v]

Init ==
    /\ \E arg \in Args : pl = New(arg)
    /\ arch \in Archs
    /\ phase = "idle"
    /\ pod = <<>>
    /\ cycleState = EmptyCycleState
    /\ preScoreStatus = "none"
    /\ panic = "none"
    /\ pc = NewFrame("start")
    /\ resp = NewFrame(NoFetch)
    /\ apiData = NewFrame(<<>>)
    /\ apierr = NewFrame("nil")
    /\ location = NewFrame(NoLocation)
    /\ locData = NewFrame(ZeroLocationData)
    /\ result = NewFrame(NoResult)
    /\ pbpc = "idle"
    /\ boundNode = ""
    /\ requests = <<>>
    /\ logged = FALSE

Running == pl.ok /\ panic = "none"

\* the variable kept once for the package instead of once per invocation
SetPackageLevel(f, n, v) == [m \in DOMAIN f |-> v]

\* a local variable of the Score invocation for node n takes the value v
SetLocal(f, n, v) == [f EXCEPT ![n] = v]

\* ---------------------------------------------------------------- PreScore
PreScore(name) ==
    /\ Running
    /\ phase = "idle"
    /\ pod' = name
    /\ LET podNameLastChar == SliceFrom(name, Len(name) - 1)
           conv == Atoi(podNameLastChar.val)
       IN  IF podNameLastChar.panic
           THEN /\ panic' = "PreScore"
                /\ UNCHANGED <<phase, cycleState, preScoreStatus>>
           ELSE /\ cycleState' =
                      IF conv.err THEN cycleState
                      ELSE StateWrite(cycleState, preScoreStateKey,
                                      [podSuffixNumber |-> conv.val])
                /\ preScoreStatus' = "nil"
                /\ phase' = "score"
                /\ UNCHANGED panic
    /\ UNCHANGED <<pl, arch, scoreVars, postBindVars>>

\* ------------------------------------------------------------------- Score
\* line 119: the fetch; an http.Get that is never answered never returns
ScoreGetData(n) ==
    /\ Running
    /\ phase = "score"
    /\ pc[n] = "start"
    /\ \E o \in FetchOutcomes :
          /\ resp' = [resp EXCEPT ![n] = o]
          /\ IF o.kind = "hang"
             THEN /\ pc' = [pc EXCEPT ![n] = "blocked"]
                  /\ UNCHANGED <<apiData, apierr>>
             ELSE /\ apiData' = SetLocal(apiData, n, GetData(o).data)
                  /\ apierr' = SetLocal(apierr, n, GetData(o).err)
                  /\ pc' = [pc EXCEPT ![n] = "fetched"]
    /\ UNCHANGED <<pl, arch, phase, pod, cycleState, preScoreStatus, panic,
                   location, locData, result, postBindVars>>

\* lines 121-128: the fallback on a failed fetch, else the node's label
ScoreLocate(n) ==
    /\ Running
    /\ phase = "score"
    /\ pc[n] = "fetched"
    /\ IF apierr[n] # "nil"
       THEN /\ result' = SetLocal(result, n, [score |-> ApiFailScore, status |-> "nil"])
            /\ pc' = [pc EXCEPT ![n] = "returned"]
            /\ UNCHANGED <<location, panic>>
       ELSE LET idx  == IndexFunc([k \in 1..Len(NodeList) |-> NodeList[k].Name = n])
                node == SliceIndex(NodeList, idx, NodeList[1])
            IN  IF node.panic
                THEN /\ panic' = "Score"
                     /\ pc' = [pc EXCEPT ![n] = "panicked"]
                     /\ UNCHANGED <<location, result>>
                ELSE /\ location' = SetLocal(location, n, MapGet(node.val.Labels, "location"))
                     /\ pc' = [pc EXCEPT ![n] = "located"]
                     /\ UNCHANGED <<result, panic>>
    /\ UNCHANGED <<pl, arch, phase, pod, cycleState, preScoreStatus,
                   resp, apiData, apierr, locData, postBindVars>>

\* line 130: GetLocationData
ScoreMatch(n) ==
    /\ Running
    /\ phase = "score"
    /\ pc[n] = "located"
    /\ LET found == GetLocationData(location[n], apiData[n])
       IN  IF found.panic
           THEN /\ panic' = "Score"
                /\ pc' = [pc EXCEPT ![n] = "panicked"]
                /\ UNCHANGED locData
           ELSE /\ locData' = SetLocal(locData, n, found.val)
                /\ pc' = [pc EXCEPT ![n] = "matched"]
                /\ UNCHANGED panic
    /\ UNCHANGED <<pl, arch, phase, pod, cycleState, preScoreStatus,
                   resp, apiData, apierr, location, result, postBindVars>>

\* lines 132-136: the blend and the return
ScoreReturn(n) ==
    /\ Running
    /\ phase = "score"
    /\ pc[n] = "matched"
    /\ result' = SetLocal(result, n,
                     [score |-> ScoreBlend(pl, cycleState, pod, locData[n], arch),
                      status |-> "nil"])
    /\ pc' = [pc EXCEPT ![n] = "returned"]
    /\ UNCHANGED <<pl, arch, phase, pod, cycleState, preScoreStatus, panic,
                   resp, apiData, apierr, location, locData, postBindVars>>

\* Score run alone from call to return, for the node nodeName and the fetch
\* outcome o
Score(plugin, state, p, nodeName, o, a) ==
    LET fetched == GetData(o)
        idx     == IndexFunc([k \in 1..Len(NodeList) |-> NodeList[k].Name = nodeName])
        node    == SliceIndex(NodeList, idx, NodeList[1])
        found   == GetLocationData(MapGet(node.val.Labels, "location"), fetched.data)
    IN  CASE o.kind = "hang"      -> [pc |-> "blocked", result |-> NoResult]
          [] fetched.err # "nil"  ->
               [pc |-> "returned",
                result |-> [score |-> ApiFailScore, status |-> "nil"]]
          [] node.panic \/ found.panic -> [pc |-> "panicked", result |-> NoResult]
          [] OTHER ->
               [pc |-> "returned",
                result |-> [score |-> ScoreBlend(plugin, state, p, found.val, a),
                            status |-> "nil"]]

\* ---------------------------------------------------------------- PostBind
\* the host binds the pod to a scored node once every Score has returned;
\* the Score frames are gone by then
Bind(n) ==
    /\ Running
    /\ phase = "score"
    /\ \A m \in Nodes : pc[m] = "returned"
    /\ phase' = "postbind"
    /\ boundNode' = n
    /\ pbpc' = "start"
    /\ requests' = <<>>
    /\ logged' = FALSE
    /\ pc' = NewFrame("start")
    /\ resp' = NewFrame(NoFetch)
    /\ apiData' = NewFrame(<<>>)
    /\ apierr' = NewFrame("nil")
    /\ location' = NewFrame(NoLocation)
    /\ locData' = NewFrame(ZeroLocationData)
    /\ result' = NewFrame(NoResult)
    /\ UNCHANGED <<pl, arch, pod, cycleState, preScoreStatus, panic>>

\* PostBind that goes on to the second call after a failed POST
PostBindPostNoReturn ==
    /\ Running
    /\ phase = "postbind"
    /\ pbpc = "start"
    /\ requests' = Append(requests, [method |-> "POST", url |-> "log",
                                     body |-> [node |-> boundNode]])
    /\ \E o \in {"ok", "err", "hang"} :
          CASE o = "err"  -> logged' = TRUE /\ pbpc' = "posted"
            [] o = "hang" -> logged' = logged /\ pbpc' = "blocked"
            [] OTHER      -> logged' = logged /\ pbpc' = "posted"
    /\ UNCHANGED <<pl, arch, phase, pod, cycleState, preScoreStatus, panic,
                   scoreVars, boundNode>>

\* lines 100-111: the POST of the node name; an error is printed and ends
\* PostBind
PostBindPost ==
    /\ Running
    /\ phase = "postbind"
    /\ pbpc = "start"
    /\ requests' = Append(requests, [method |-> "POST", url |-> "log",
                                     body |-> [node |-> boundNode]])
    /\ \E o \in {"ok", "err", "hang"} :
          CASE o = "err"  -> logged' = TRUE /\ pbpc' = "returned"
            [] o = "hang" -> logged' = logged /\ pbpc' = "blocked"
            [] OTHER      -> logged' = logged /\ pbpc' = "posted"
    /\ UNCHANGED <<pl, arch, phase, pod, cycleState, preScoreStatus, panic,
                   scoreVars, boundNode>>

\* line 113: the second outbound call, its outcome ignored
PostBindGet ==
    /\ Running
    /\ phase = "postbind"
    /\ pbpc = "posted"
    /\ requests' = Append(requests, [method |-> "GET", url |-> "pipedream",
                                     body |-> [node |-> ""]])
    /\ \E o \in {"ok", "err", "hang"} :
          pbpc' = IF o = "hang" THEN "blocked" ELSE "returned"
    /\ UNCHANGED <<pl, arch, phase, pod, cycleState, preScoreStatus, panic,
                   scoreVars, boundNode, logged>>

\* the host starts the cycle of the next pod with a fresh per-cycle state
NextCycle ==
    /\ Running
    /\ phase = "postbind"
    /\ pbpc = "returned"
    /\ phase' = "idle"
    /\ pod' = <<>>
    /\ cycleState' = EmptyCycleState
    /\ preScoreStatus' = "none"
    /\ pbpc' = "idle"
    /\ boundNode' = ""
    /\ requests' = <<>>
    /\ logged' = FALSE
    /\ UNCHANGED <<pl, arch, panic, scoreVars>>

Next ==
    \/ \E name \in PodNames : PreScore(name)
    \/ \E n \in Nodes : ScoreGetData(n)
    \/ \E n \in Nodes : ScoreLocate(n)
    \/ \E n \in Nodes : ScoreMatch(n)
    \/ \E n \in Nodes : ScoreReturn(n)
    \/ \E n \in Nodes : Bind(n)
    \/ PostBindPost
    \/ PostBindGet
    \/ NextCycle

Spec == Init /\ [][Next]_vars

\* the host runs every Score invocation that can take a step, and PostBind
FairSpec ==
    /\ Spec
    /\ \A n \in Nodes : WF_vars(ScoreGetData(n) \/ ScoreLocate(n)
                                \/ ScoreMatch(n) \/ ScoreReturn(n))
    /\ WF_vars(PostBindPost \/ PostBindGet)

\* ------------------------------------------------------------- properties
FetchFailed(o) == o.kind \in {"transport_err", "read_err", "syntax_err", "not_array"}

Fallback == [score |-> 22, status |-> "nil"]

\* the node of the snapshot named n
NodeNamed(n) == CHOOSE ni \in {NodeList[k] : k \in 1..Len(NodeList)} : ni.Name = n

\* the fetched list holds no record for the location label of node n
NoRecordFor(n) ==
    /\ resp[n].kind = "array"
    /\ \A k \in 1..Len(resp[n].recs) :
          resp[n].recs[k].Location # MapGet(NodeNamed(n).Labels, "location")

\* Score for node n got as far as a matched record
Matched(n) == pc[n] = "returned" /\ resp[n].kind = "array"

\* the per-cycle state a pod name calls for
FeatureOf(name) ==
    IF Len(name) > 0 /\ name[Len(name)] \in 48..57
    THEN preScoreStateKey :> [podSuffixNumber |-> name[Len(name)] - 48]
    ELSE EmptyCycleState

\* C1: whenever the telemetry fetch fails (transport error, body-read error,
\* or a payload that is not a JSON array of records), Score returns the fixed
\* fallback score 22 with a nil status, and gets there without reading the
\* node snapshot or any telemetry record.
C1_FetchFailureFallback ==
    \A n \in Nodes :
        FetchFailed(resp[n]) =>
            /\ pc[n] \in {"fetched", "returned"}
            /\ location[n] = NoLocation
            /\ locData[n] = ZeroLocationData
            /\ apiData[n] = <<>>
            /\ pc[n] = "returned" => result[n] = Fallback

C1_Witness ==
    /\ pc["node-a"] = "returned" /\ resp["node-a"].kind = "syntax_err"
    /\ pc["node-b"] = "returned" /\ resp["node-b"].kind = "transport_err"

\* C2: for a fetched record list with no record for the node's location
\* label, Score returns the fallback score with a nil status and never
\* indexes the list out of range.
C2_NoMatchFallback ==
    \A n \in Nodes :
        NoRecordFor(n) =>
            /\ pc[n] # "panicked"
            /\ pc[n] = "returned" => result[n] = Fallback

\* C3: for every matched record the returned score lies in 0..100.
C3_ScoreInBand ==
    \A n \in Nodes : Matched(n) => result[n].score \in 0..100

\* C4: for every matched record with primaryLoad = 0, Score returns the
\* fallback score.
C4_ZeroLoadFallback ==
    \A n \in Nodes :
        (Matched(n) /\ locData[n].PrimaryLoad = 0) => result[n] = Fallback

\* C5: for every pod name PreScore returns success and never crashes; the
\* per-cycle state afterwards holds podSuffixNumber = d when the name ends in
\* the digit d, and nothing when it does not (the empty name included).
C5_PreScoreNeverFails ==
    /\ panic # "PreScore"
    /\ phase = "score" => (preScoreStatus = "nil" /\ cycleState = FeatureOf(pod))

\* C6: every Score invocation eventually returns a score, whatever the
\* telemetry service does (stated for a process that has not crashed, so
\* that an unanswered fetch is the only way left not to return).
C6_ScoreEventuallyReturns ==
    \A n \in Nodes :
        (phase = "score" /\ pc[n] = "start") ~> (pc[n] = "returned" \/ panic # "none")

\* C7: whatever the interleaving of the concurrent Score invocations of one
\* cycle, each invocation ends as the same invocation run alone would end
\* (same score, same status), and the per-cycle state is still what PreScore
\* wrote.
C7_ConcurrentAsSequential ==
    /\ \A n \in Nodes :
          pc[n] \in {"returned", "panicked", "blocked"} =>
              [pc |-> pc[n], result |-> result[n]]
                  = Score(pl, cycleState, pod, n, resp[n], arch)
    /\ phase = "score" => cycleState = FeatureOf(pod)

C7_Witness ==
    /\ pc["node-a"] = "returned" /\ resp["node-a"].recs = <<RecOther, RecSpec>>
    /\ pc["node-b"] = "returned" /\ resp["node-b"].recs = <<RecNoLoc>>

C9_BlendFormula ==
    \A n \in Nodes :
        (Matched(n) /\ locData[n].PrimaryLoad # 0) =>
            LET ld    == locData[n]
                renew == RoundRenewScore(
                             FloatDiv(ld.RenewableOutput - ld.PrimaryLoad, ld.PrimaryLoad))
                twice == renew.val + (MathRound(ld.BatteryCharge) - 20)
            IN  /\ ~renew.nan
                /\ 2 * result[n].score - twice \in {0 - 1, 0, 1}
                /\ ld = RecSpec => (renew.val = 73 /\ result[n].score \in {66, 67})
                /\ \A m \in Nodes :
                      (Matched(m) /\ locData[m] = ld) => result[m] = result[n]

C9_Witness ==
    /\ Matched("node-a") /\ locData["node-a"] = RecSpec
    /\ Matched("node-b") /\ locData["node-b"] = RecNoLoc

\* C10 as stated: whether the POST succeeds or fails, the second outbound
\* call is issued before PostBind returns.
C10_SecondCallUnconditional ==
    pbpc = "returned" =>
        \E k \in 1..Len(requests) : requests[k].method = "GET"

\* C10 amended: PostBind first attempts the POST of the bound node name; when
\* the POST fails the error is printed and PostBind returns without the
\* second call; when it succeeds the second call is issued after it.
C10_SecondCallOnlyAfterPost ==
    pbpc = "returned" =>
        /\ Len(requests) >= 1
        /\ requests[1].method = "POST"
        /\ requests[1].body = [node |-> boundNode]
        /\ IF logged
           THEN Len(requests) = 1
           ELSE Len(requests) = 2 /\ requests[2].method = "GET"

C10_Witness == pbpc = "returned" /\ logged /\ Len(requests) = 1

====
